---- MODULE Spec2Model ----
(***************************************************************************)
(* The remote tree-mutation engine of the GitHub skill                     *)
(* (github/scripts/file_chmod.py, github/scripts/github_common.py):        *)
(* the mode-change pipeline change_file_modes against a commit store with  *)
(* one branch and an external writer, and the resilient request layer      *)
(* make_request_with_retry.                                                *)
(*                                                                         *)
(* Strings are sequences of one-character strings, so that strip, lstrip,  *)
(* zfill and int(.., 8) are computed as Python computes them.  A tree SHA  *)
(* is the tree's content (the store is content-addressed); a commit SHA is *)
(* the commit's index in the store.                                        *)
(***************************************************************************)
EXTENDS Integers, Sequences, FiniteSets, TLC

\* ------------------------------------------------------------------ bounds
MaxCommits == 4      \* commits the store can hold
MaxRuns == 2         \* invocations of the command in one behaviour
MaxExt == 1          \* moves of the branch by other writers in one behaviour

\* ------------------------------------------------------- Python str helpers
RECURSIVE LStripChar(_, _)
\* s.lstrip(c) for a one-character c
LStripChar(s, c) ==
    IF s # <<>> /\ Head(s) = c THEN LStripChar(Tail(s), c) ELSE s

RECURSIVE RStripChar(_, _)
\* s.rstrip(c) for a one-character c
RStripChar(s, c) ==
    IF s # <<>> /\ s[Len(s)] = c
    THEN RStripChar(SubSeq(s, 1, Len(s) - 1), c)
    ELSE s

\* path.strip("/")
StripSlash(path) == RStripChar(LStripChar(path, "/"), "/")

RECURSIVE Zeros(_)
Zeros(n) == IF n <= 0 THEN <<>> ELSE <<"0">> \o Zeros(n - 1)

\* faulty variant: no padding
ZFill_unpadded(s, width) == s

\* s.zfill(width): zeros go after a leading sign
ZFill(s, width) ==
    IF Len(s) >= width THEN s
    ELSE IF s # <<>> /\ Head(s) \in {"+", "-"}
         THEN <<Head(s)>> \o Zeros(width - Len(s)) \o Tail(s)
         ELSE Zeros(width - Len(s)) \o s

OctDigits == {"0", "1", "2", "3", "4", "5", "6", "7"}

OctVal(c) ==
    CASE c = "0" -> 0 [] c = "1" -> 1 [] c = "2" -> 2 [] c = "3" -> 3
      [] c = "4" -> 4 [] c = "5" -> 5 [] c = "6" -> 6 [] c = "7" -> 7

RECURSIVE OctDigitsValue(_, _)
OctDigitsValue(s, acc) ==
    IF s = <<>> THEN acc ELSE OctDigitsValue(Tail(s), 8 * acc + OctVal(Head(s)))

\* the digits of an int(.., 8) literal once sign and 0o prefix are removed
OctBody(s) ==
    LET unsigned == IF s # <<>> /\ Head(s) \in {"+", "-"} THEN Tail(s) ELSE s
    IN IF Len(unsigned) >= 2 /\ unsigned[1] = "0" /\ unsigned[2] \in {"o", "O"}
       THEN SubSeq(unsigned, 3, Len(unsigned))
       ELSE unsigned

\* int(s, 8) raises ValueError
IntBase8Raises(s) ==
    \/ OctBody(s) = <<>>
    \/ \E i \in 1..Len(OctBody(s)) : OctBody(s)[i] \notin OctDigits

\* int(s, 8) when it does not raise
IntBase8(s) ==
    LET v == OctDigitsValue(OctBody(s), 0)
    IN IF s # <<>> /\ Head(s) = "-" THEN 0 - v ELSE v

ValueError == <<"ValueError">>

\* user_mode_to_git_mode: the git mode, or ValueError when it raises
user_mode_to_git_mode(user_mode) ==
    LET stripped == LStripChar(user_mode, "0")
        um == IF stripped = <<>> THEN <<"0">> ELSE stripped
        mode_3digit == ZFill(um, 3)
    IN IF Len(um) = 6 /\ um[1] \in {"1", "0"} THEN um
       ELSE IF Len(um) <= 3
            THEN IF IntBase8Raises(mode_3digit) THEN ValueError
                 ELSE IF IntBase8(mode_3digit) < 0 \/ IntBase8(mode_3digit) > 511
                      THEN ValueError
                      ELSE <<"1", "0", "0">> \o mode_3digit
            ELSE ValueError

\* ------------------------------------------------------------- the store
\* git tree entry modes (get_tree_recursive's docstring)
M644 == <<"1", "0", "0", "6", "4", "4">>
M755 == <<"1", "0", "0", "7", "5", "5">>
MSymlink == <<"1", "2", "0", "0", "0", "0">>
MSubdir == <<"0", "4", "0", "0", "0", "0">>
MSubmodule == <<"1", "6", "0", "0", "0", "0">>

\* the paths a tree of the model can hold, in the order of a listing
Pd == <<"d">>
Pdx == <<"d", "/", "x">>
Py == <<"y">>
TreeOrder == <<Pd, Pdx, Py>>
TreePaths == {TreeOrder[i] : i \in 1..Len(TreeOrder)}

NoEntry == [mode |-> <<>>, type |-> "none", sha |-> 0]
Blob(m, sha) == [mode |-> m, type |-> "blob", sha |-> sha]
\* a subtree entry; its SHA is derived from its children and is not tracked
Subtree == [mode |-> MSubdir, type |-> "tree", sha |-> 0]
Submodule(sha) == [mode |-> MSubmodule, type |-> "commit", sha |-> sha]

\* a tree is its flattened content: path -> entry (NoEntry when absent)
MkTree(d, dx, y) == [p \in TreePaths |-> IF p = Pd THEN d ELSE IF p = Pdx THEN dx ELSE y]
NoTree == MkTree(NoEntry, NoEntry, NoEntry)

InitTrees ==
    { MkTree(Subtree, Blob(M644, 11), Blob(M644, 12)),
      MkTree(Subtree, Blob(M755, 11), Blob(MSymlink, 13)),
      MkTree(Submodule(14), NoEntry, Blob(M644, 12)),
      MkTree(NoEntry, NoEntry, Blob(M755, 12)) }

\* the (mode, type) pairs the store accepts in a tree
ValidEntryKinds ==
    { <<M644, "blob">>, <<M755, "blob">>, <<MSymlink, "blob">>,
      <<MSubdir, "tree">>, <<MSubmodule, "commit">> }

RECURSIVE IsAncestor(_, _, _)
\* commit a is commit c or one of its ancestors in the commit store cs
IsAncestor(cs, a, c) ==
    \/ a = c
    \/ \E i \in 1..Len(cs[c].parents) : IsAncestor(cs, a, cs[c].parents[i])

\* PATCH /git/refs/heads/{branch}: the move is accepted when forced or a
\* fast-forward (the branch's commit is an ancestor of the new commit)
RefUpdateAccepted(cs, cur, new, force) == force \/ IsAncestor(cs, cur, new)

\* GET /git/trees/{sha}?recursive=1: the entries present, in listing order
RECURSIVE ListingFrom(_, _)
ListingFrom(tree, i) ==
    IF i > Len(TreeOrder) THEN <<>>
    ELSE IF tree[TreeOrder[i]] = NoEntry THEN ListingFrom(tree, i + 1)
    ELSE << [path |-> TreeOrder[i], mode |-> tree[TreeOrder[i]].mode,
             type |-> tree[TreeOrder[i]].type, sha |-> tree[TreeOrder[i]].sha] >>
         \o ListingFrom(tree, i + 1)

Listing(tree) == ListingFrom(tree, 1)

\* the last change of a patch list that names path p, 0 when none does
RECURSIVE LastChangeFor(_, _, _)
LastChangeFor(changes, p, i) ==
    IF i = 0 THEN 0
    ELSE IF changes[i].path = p THEN i
    ELSE LastChangeFor(changes, p, i - 1)

\* POST /git/trees {base_tree, tree}: entries named are replaced, the rest
\* carried over
ApplyPatch(base, changes) ==
    [p \in TreePaths |->
        LET i == LastChangeFor(changes, p, Len(changes))
        IN IF i = 0 THEN base[p]
           ELSE [mode |-> changes[i].mode, type |-> changes[i].type,
                 sha |-> changes[i].sha]]

\* the store rejects a patch (422) that names an entry kind it does not know
PatchValid(changes) ==
    \A i \in 1..Len(changes) : <<changes[i].mode, changes[i].type>> \in ValidEntryKinds

\* ---------------------------------------------------------- the requests
\* --path values as typed: with and without leading / trailing slashes
RawDx == <<"/", "d", "/", "x", "/">>
RawY == <<"y">>
RawYSlash == <<"y", "/">>
RawD == <<"d">>
RawZ == <<"z">>

\* the --path lists of the invocations: one path, several paths, the same
\* path twice in two spellings, a path that is no file, missing paths
PathLists ==
    { <<RawDx>>, <<RawY, RawDx>>, <<RawY, RawYSlash>>, <<RawD, RawY>>,
      <<RawD>>, <<RawZ, RawY>>, <<RawZ, RawDx, RawZ>>, <<RawYSlash, RawD, RawDx>> }

\* --mode values as typed
UserModes ==
    { <<"7", "5", "5">>, <<"0", "6", "4", "4">>,
      <<"1", "2", "0", "0", "0", "0">>, <<"9">> }

\* response statuses that any call may end with, besides its success status;
\* 422 is the store's answer to a request it rejects
ErrStatuses == {404, 500}
GetStatuses == {200} \cup ErrStatuses
PostStatuses == {201} \cup ErrStatuses
PatchStatuses == {200} \cup ErrStatuses

VARIABLES
    commits,        \* the store's commits: <<[tree, parent]>>, SHA = index
    branch,         \* the commit the branch points to
    known,          \* the commits other writers can name: those the store
                    \* started with and those the branch has pointed to
    paths, mode,    \* the command line of the invocations
    pc,             \* where the invocation stands
    git_mode, head_sha, tree_sha, tree_entries,
    changed, skipped, not_found,
    tree_changes, new_tree_sha, new_commit_sha,
    result,         \* the returned commit_sha, 0 for None
    status,         \* status of the last response
    warned,         \* get_tree_recursive printed the truncation warning
    error,          \* why the invocation exited with code 1
    calls,          \* the remote calls issued by the invocation, in order
    runs,           \* invocations started
    ext,            \* moves of the branch by other writers so far
    ext0,           \* ext when the invocation started
    branch0,        \* the branch when the invocation started
    commits0,       \* the number of commits when the invocation started
    patch_branch,   \* the branch when the PATCH of the ref arrived, 0 before
    prev            \* how the previous invocation ended

\* the state of one call of make_request_with_retry
VARIABLES
    max_retries,    \* the max_retries argument
    attempt,        \* the loop variable
    r_pc,           \* "loop", "returned" or "raised"
    response,       \* the response of the last request
    nreq,           \* requests issued
    sleep_time,     \* length of the last sleep, -1 before the first
    log,            \* what the call did, in order: "transient", "final", "sleep"
    returned        \* the value returned

retry_vars == <<max_retries, attempt, r_pc, response, nreq, sleep_time, log, returned>>

\* the state of one translation and display of a --mode value
VARIABLES
    m_pc,           \* "translate", "display", "shown", or "idle"
    mode_display    \* mode_display of format_result_for_display

mode_vars == <<m_pc, mode_display>>

\* the state of one call of get_ref_sha
VARIABLES
    impl,           \* the module whose get_ref_sha is called
    ref,            \* the ref argument
    heads,          \* the store's branches: name -> object
    tags,           \* the store's tags: name -> object
    ref_pc,         \* the lookup to come, "returned" or "exit"
    ref_calls,      \* the requests issued, in order, with their statuses
    sha             \* the value returned

ref_vars == <<impl, ref, heads, tags, ref_pc, ref_calls, sha>>

\* the rest of the state of one run of file_write.py
VARIABLES
    w_pc,           \* where main stands: "put", "set_mode", "done", "failed"
    sha_arg,        \* the --sha argument, 0 when not given
    content_commit  \* the commit the contents endpoint made, 0 when none

write_vars == <<w_pc, sha_arg, content_commit>>

\* two invocations of file_chmod.py at once: invocation -> its state
VARIABLE inv

store == <<commits, branch, known>>
request == <<paths, mode>>
locals == <<git_mode, head_sha, tree_sha, tree_entries, changed, skipped,
            not_found, tree_changes, new_tree_sha, new_commit_sha, result,
            warned>>
ghost == <<runs, ext, ext0, branch0, commits0, patch_branch, prev>>
vars == <<store, request, pc, locals, status, error, calls, ghost, retry_vars,
          mode_vars, ref_vars, write_vars, inv>>

\* ------------------------------------------------ file_chmod.py, the steps
\* handle_api_error returns (does not exit)
handle_api_error_returns(st) == st >= 200 /\ st < 300

get_branch_head_sha_ok(st) == st # 404 /\ handle_api_error_returns(st)
get_commit_tree_sha_ok(st) == st # 404 /\ handle_api_error_returns(st)
get_tree_recursive_ok(st) == st # 404 /\ handle_api_error_returns(st)
\* data.get("truncated", False): the store marks a listing it has cut short
Truncated(tree, n) == n < Len(Listing(tree))
\* faulty variant: a truncated listing is an error
get_tree_recursive_returns_whole_only(st, truncated) ==
    get_tree_recursive_ok(st) /\ ~truncated
\* get_tree_recursive returns data.get("tree", []): truncation only warns
get_tree_recursive_returns(st, truncated) == get_tree_recursive_ok(st)
create_tree_with_changes_ok(st) ==
    st # 404 /\ st # 422 /\ handle_api_error_returns(st)
\* faulty variant: the response of the commit creation is not checked
create_commit_ok_unchecked(st) == TRUE
create_commit_ok(st) == handle_api_error_returns(st)
\* faulty variant: only 201 Created counts as success (the PATCH answers 200)
update_branch_ref_ok_created_only(st) == st = 201
\* faulty variant: the answer of the branch update is not checked
update_branch_ref_ok_unchecked(st) == TRUE
update_branch_ref_ok(st) == st # 422 /\ handle_api_error_returns(st)

\* faulty variant: the pipeline forces the update
update_branch_ref_force_always == TRUE
\* the force argument of update_branch_ref as change_file_modes calls it
update_branch_ref_force == FALSE

\* tree_by_path of find_files_in_tree: path -> entry, a later entry wins
tree_by_path(entries) ==
    [p \in {entries[i].path : i \in 1..Len(entries)} |->
        entries[CHOOSE i \in 1..Len(entries) :
                    /\ entries[i].path = p
                    /\ \A j \in (i + 1)..Len(entries) : entries[j].path # p]]

find_files_in_tree(entries, ps) ==
    LET by_path == tree_by_path(entries)
    IN [p \in {StripSlash(ps[i]) : i \in 1..Len(ps)} \cap DOMAIN by_path |-> by_path[p]]

normalized_paths(ps) == [i \in 1..Len(ps) |-> StripSlash(ps[i])]

\* the classification loop of change_file_modes
IsNotFound(found, p) == p \notin DOMAIN found
IsSkipped(found, gm, p) ==
    /\ p \in DOMAIN found
    /\ found[p].type # "blob" \/ found[p].mode = gm
\* faulty variant: the current mode is not compared with the target
IsChanged_any_blob(found, gm, p) ==
    /\ p \in DOMAIN found
    /\ found[p].type = "blob"
\* faulty variant: the entry's type is not looked at
IsChanged_any_type(found, gm, p) ==
    /\ p \in DOMAIN found
    /\ found[p].mode # gm
IsChanged(found, gm, p) ==
    /\ p \in DOMAIN found
    /\ found[p].type = "blob"
    /\ found[p].mode # gm

\* faulty variant: only the first missing path is reported
NotFoundList_first_only(found, ps) ==
    LET all == SelectSeq(normalized_paths(ps), LAMBDA p : IsNotFound(found, p))
    IN SubSeq(all, 1, 1)
NotFoundList(found, ps) ==
    SelectSeq(normalized_paths(ps), LAMBDA p : IsNotFound(found, p))
SkippedList(found, gm, ps) ==
    SelectSeq(normalized_paths(ps), LAMBDA p : IsSkipped(found, gm, p))
ChangedList(found, gm, ps) ==
    SelectSeq(normalized_paths(ps), LAMBDA p : IsChanged(found, gm, p))

\* faulty variant: no early return
NothingToChange_never(ch) == FALSE
\* "if not changed": the early return with commit_sha = None
NothingToChange(ch) == ch = <<>>

\* faulty variant: a tree (and so a commit) is made for the first path only
TreeChanges_first_only(found, gm, ch) ==
    [i \in 1..1 |->
        [path |-> ch[i], mode |-> gm, type |-> "blob", sha |-> found[ch[i]].sha]]

\* faulty variant: every patch entry carries the first path's blob
TreeChanges_first_sha(found, gm, ch) ==
    [i \in 1..Len(ch) |->
        [path |-> ch[i], mode |-> gm, type |-> "blob", sha |-> found[ch[1]].sha]]

\* Step 5: one patch entry per changed path
TreeChanges(found, gm, ch) ==
    [i \in 1..Len(ch) |->
        [path |-> ch[i], mode |-> gm, type |-> "blob", sha |-> found[ch[i]].sha]]

\* ------------------------------------------------------------ the actions
NoPrev == [pc |-> "idle", commit |-> 0]
None == <<"None">>
NoResponse == [status |-> 0, rate |-> FALSE, retry_after |-> None, reset |-> None]

\* max_retries: int = 3
DefaultMaxRetries == 3

\* no call of make_request_with_retry is followed
RetryIdle ==
    /\ max_retries = DefaultMaxRetries
    /\ attempt = 0
    /\ r_pc = "idle"
    /\ response = NoResponse
    /\ nreq = 0
    /\ sleep_time = -1
    /\ log = <<>>
    /\ returned = NoResponse

\* no --mode value is followed through translation and display
ModeIdle ==
    /\ m_pc = "idle"
    /\ mode_display = <<>>

\* no call of get_ref_sha is followed
RefIdle ==
    /\ impl = "none"
    /\ ref = ""
    /\ heads = <<>>
    /\ tags = <<>>
    /\ ref_pc = "idle"
    /\ ref_calls = <<>>
    /\ sha = ""

\* no run of file_write.py is followed
WriteIdle ==
    /\ w_pc = "idle"
    /\ sha_arg = 0
    /\ content_commit = 0

\* no pair of invocations is followed
TwoIdle == inv = <<>>

\* no invocation has started
PipelineIdle ==
    /\ pc = "idle"
    /\ git_mode = <<>>
    /\ head_sha = 0
    /\ tree_sha = NoTree
    /\ tree_entries = <<>>
    /\ changed = <<>>
    /\ skipped = <<>>
    /\ not_found = <<>>
    /\ tree_changes = <<>>
    /\ new_tree_sha = NoTree
    /\ new_commit_sha = 0
    /\ result = 0
    /\ status = 0
    /\ warned = FALSE
    /\ error = ""
    /\ calls = <<>>
    /\ runs = 0
    /\ ext = 0
    /\ ext0 = 0
    /\ branch0 = 0
    /\ commits0 = 0
    /\ patch_branch = 0
    /\ prev = NoPrev

Init ==
    /\ RetryIdle
    /\ ModeIdle
    /\ RefIdle
    /\ WriteIdle
    /\ TwoIdle
    /\ \E t \in InitTrees :
         commits = << [tree |-> MkTree(Subtree, Blob(M644, 11), Blob(M644, 12)),
                       parents |-> <<>>],
                      [tree |-> t, parents |-> <<1>>],
                      [tree |-> [t EXCEPT ![Py] = Blob(M644, 15)], parents |-> <<2>>] >>
    /\ branch = 2
    /\ known = {1, 2, 3}
    /\ paths \in PathLists
    /\ mode \in UserModes
    /\ PipelineIdle

\* the command is run: change_file_modes up to its first remote call
Start ==
    /\ UNCHANGED <<retry_vars, mode_vars, ref_vars, write_vars, inv>>
    /\ pc \in {"idle", "done", "failed"}
    /\ runs < MaxRuns
    /\ runs' = runs + 1
    /\ prev' = [pc |-> pc, commit |-> result]
    /\ git_mode' = user_mode_to_git_mode(mode)
    /\ IF git_mode' = ValueError
       THEN pc' = "failed" /\ error' = "mode"
       ELSE pc' = "get_head" /\ error' = ""
    /\ head_sha' = 0
    /\ tree_sha' = NoTree
    /\ tree_entries' = <<>>
    /\ changed' = <<>>
    /\ skipped' = <<>>
    /\ not_found' = <<>>
    /\ tree_changes' = <<>>
    /\ new_tree_sha' = NoTree
    /\ new_commit_sha' = 0
    /\ result' = 0
    /\ status' = 0
    /\ warned' = FALSE
    /\ calls' = <<>>
    /\ ext' = ext
    /\ ext0' = ext
    /\ branch0' = branch
    /\ commits0' = Len(commits)
    /\ patch_branch' = 0
    /\ UNCHANGED <<store, request>>

\* Step 1: get_branch_head_sha
GetBranchHead(st) ==
    /\ UNCHANGED <<retry_vars, mode_vars, ref_vars, write_vars, inv>>
    /\ pc = "get_head"
    /\ calls' = Append(calls, "get_branch_head_sha")
    /\ status' = st
    /\ IF get_branch_head_sha_ok(st)
       THEN head_sha' = branch /\ pc' = "get_commit" /\ error' = error
       ELSE head_sha' = head_sha /\ pc' = "failed" /\ error' = "api"
    /\ UNCHANGED <<store, request, git_mode, tree_sha, tree_entries, changed,
                   skipped, not_found, tree_changes, new_tree_sha,
                   new_commit_sha, result, warned, ghost>>

\* Step 2: get_commit_tree_sha
GetCommitTree(st) ==
    /\ UNCHANGED <<retry_vars, mode_vars, ref_vars, write_vars, inv>>
    /\ pc = "get_commit"
    /\ calls' = Append(calls, "get_commit_tree_sha")
    /\ status' = st
    /\ IF get_commit_tree_sha_ok(st)
       THEN tree_sha' = commits[head_sha].tree /\ pc' = "get_tree" /\ error' = error
       ELSE tree_sha' = tree_sha /\ pc' = "failed" /\ error' = "api"
    /\ UNCHANGED <<store, request, git_mode, head_sha, tree_entries, changed,
                   skipped, not_found, tree_changes, new_tree_sha,
                   new_commit_sha, result, warned, ghost>>

\* Steps 3 to 5: get_tree_recursive (the listing comes whole, or truncated
\* to its first n entries), then the classification, the not-found exit,
\* the nothing-to-change return and the patch list
GetTree(st, n) ==
    /\ UNCHANGED <<retry_vars, mode_vars, ref_vars, write_vars, inv>>
    /\ pc = "get_tree"
    /\ n \in 0..Len(Listing(tree_sha))
    /\ calls' = Append(calls, "get_tree_recursive")
    /\ status' = st
    /\ IF get_tree_recursive_returns(st, Truncated(tree_sha, n))
       THEN LET entries == SubSeq(Listing(tree_sha), 1, n)
                found_files == find_files_in_tree(entries, paths)
                nf == NotFoundList(found_files, paths)
                sk == SkippedList(found_files, git_mode, paths)
                ch == ChangedList(found_files, git_mode, paths)
            IN /\ tree_entries' = entries
               /\ warned' = Truncated(tree_sha, n)
               /\ not_found' = nf
               /\ skipped' = sk
               /\ changed' = ch
               /\ IF nf # <<>>
                  THEN pc' = "failed" /\ error' = "not_found"
                       /\ tree_changes' = tree_changes
                  ELSE IF NothingToChange(ch)
                  THEN pc' = "done" /\ error' = error
                       /\ tree_changes' = tree_changes
                  ELSE pc' = "create_tree" /\ error' = error
                       /\ tree_changes' = TreeChanges(found_files, git_mode, ch)
       ELSE /\ pc' = "failed" /\ error' = "api"
            /\ UNCHANGED <<tree_entries, not_found, skipped, changed, tree_changes,
                           warned>>
    /\ UNCHANGED <<store, request, git_mode, head_sha, tree_sha, new_tree_sha,
                   new_commit_sha, result, ghost>>

\* Step 6: create_tree_with_changes
CreateTree(st) ==
    LET answer == IF st = 201 /\ ~PatchValid(tree_changes) THEN 422 ELSE st
    IN /\ UNCHANGED <<retry_vars, mode_vars, ref_vars, write_vars, inv>>
       /\ pc = "create_tree"
       /\ calls' = Append(calls, "create_tree_with_changes")
       /\ status' = answer
       /\ IF create_tree_with_changes_ok(answer)
          THEN /\ new_tree_sha' = ApplyPatch(tree_sha, tree_changes)
               /\ pc' = "create_commit" /\ error' = error
          ELSE new_tree_sha' = new_tree_sha /\ pc' = "failed" /\ error' = "api"
       /\ UNCHANGED <<store, request, git_mode, head_sha, tree_sha, tree_entries,
                      changed, skipped, not_found, tree_changes, new_commit_sha,
                      result, warned, ghost>>

\* the body create_commit posts: the tree and the list of one parent
CommitBody(tree, parent_sha) == [tree |-> tree, parents |-> <<parent_sha>>]

\* Step 7: create_commit
CreateCommit(st) ==
    /\ UNCHANGED <<retry_vars, mode_vars, ref_vars, write_vars, inv>>
    /\ pc = "create_commit"
    /\ Len(commits) < MaxCommits
    /\ calls' = Append(calls, "create_commit")
    /\ status' = st
    /\ IF create_commit_ok(st)
       THEN /\ commits' = Append(commits, CommitBody(new_tree_sha, head_sha))
            /\ new_commit_sha' = Len(commits) + 1
            /\ pc' = "update_ref" /\ error' = error
       ELSE /\ commits' = commits /\ new_commit_sha' = new_commit_sha
            /\ pc' = "failed" /\ error' = "api"
    /\ UNCHANGED <<branch, known, request, git_mode, head_sha, tree_sha,
                   tree_entries, changed, skipped, not_found, tree_changes,
                   new_tree_sha, result, warned, ghost>>

\* Step 8: update_branch_ref, then the return of the result
UpdateBranchRef(st) ==
    LET accepted == RefUpdateAccepted(commits, branch, new_commit_sha,
                                      update_branch_ref_force)
        answer == IF st = 200 /\ ~accepted THEN 422 ELSE st
    IN /\ UNCHANGED <<retry_vars, mode_vars, ref_vars, write_vars, inv>>
       /\ pc = "update_ref"
       /\ calls' = Append(calls, "update_branch_ref")
       /\ status' = answer
       /\ patch_branch' = branch
       /\ branch' = IF answer = 200 THEN new_commit_sha ELSE branch
       /\ known' = IF answer = 200 THEN known \cup {new_commit_sha} ELSE known
       /\ IF update_branch_ref_ok(answer)
          THEN pc' = "done" /\ error' = error /\ result' = new_commit_sha
          ELSE pc' = "failed" /\ error' = "api" /\ result' = result
       /\ UNCHANGED <<commits, request, git_mode, head_sha, tree_sha,
                      tree_entries, changed, skipped, not_found, tree_changes,
                      new_tree_sha, new_commit_sha, runs, ext, ext0, branch0,
                      commits0, prev, warned>>

\* another writer points the branch at another commit of the store
ExternalMove(c) ==
    /\ UNCHANGED <<retry_vars, mode_vars, ref_vars, write_vars, inv>>
    /\ ext < MaxExt
    /\ c \in known
    /\ c # branch
    /\ branch' = c
    /\ ext' = ext + 1
    /\ UNCHANGED <<commits, known, request, pc, locals, status, error, calls, runs,
                   ext0, branch0, commits0, patch_branch, prev>>

Next ==
    \/ Start
    \/ \E st \in GetStatuses : GetBranchHead(st)
    \/ \E st \in GetStatuses : GetCommitTree(st)
    \/ \E st \in GetStatuses, n \in 0..Len(TreeOrder) : GetTree(st, n)
    \/ \E st \in PostStatuses : CreateTree(st)
    \/ \E st \in PostStatuses : CreateCommit(st)
    \/ \E st \in PatchStatuses : UpdateBranchRef(st)
    \/ \E c \in 1..MaxCommits : ExternalMove(c)

Spec == Init /\ [][Next]_vars

\* ------------------------------------- make_request_with_retry, the layer
MaxRetriesArg == 3   \* the largest max_retries argument followed

\* the constants of the delay computation
BackoffUnit == 60
JitterMax == 5
SleepCap == 300

DecDigits == {"0", "1", "2", "3", "4", "5", "6", "7", "8", "9"}

DecVal(c) ==
    CASE c = "0" -> 0 [] c = "1" -> 1 [] c = "2" -> 2 [] c = "3" -> 3
      [] c = "4" -> 4 [] c = "5" -> 5 [] c = "6" -> 6 [] c = "7" -> 7
      [] c = "8" -> 8 [] c = "9" -> 9

RECURSIVE DecDigitsValue(_, _)
DecDigitsValue(s, acc) ==
    IF s = <<>> THEN acc ELSE DecDigitsValue(Tail(s), 10 * acc + DecVal(Head(s)))

DecBody(s) == IF s # <<>> /\ Head(s) \in {"+", "-"} THEN Tail(s) ELSE s

\* int(s) raises ValueError
IntRaises(s) ==
    \/ DecBody(s) = <<>>
    \/ \E i \in 1..Len(DecBody(s)) : DecBody(s)[i] \notin DecDigits

\* int(s) when it does not raise
IntValue(s) ==
    LET v == DecDigitsValue(DecBody(s), 0)
    IN IF s # <<>> /\ Head(s) = "-" THEN 0 - v ELSE v

RECURSIVE Pow2(_)
Pow2(n) == IF n <= 0 THEN 1 ELSE 2 * Pow2(n - 1)

Min(a, b) == IF a <= b THEN a ELSE b
Max(a, b) == IF a >= b THEN a ELSE b

\* "if header:" on the value of response.headers.get(..)
Present(h) == h # None /\ h # <<>>

\* header values: absent, seconds, a negative number, an HTTP date
RetryAfterValues ==
    { None, <<"3", "0">>, <<"4", "0", "0">>, <<"-", "9">>, <<"W", "e", "d">> }

\* header values: absent, epoch seconds before and after now, no number
ResetValues ==
    { None, <<"9", "9", "0">>, <<"1", "0", "1", "0">>, <<"2", "0", "0", "0">>,
      <<"x">> }

\* int(time.time()) when the delay is computed
NowValues == {1000, 1005}

\* statuses whose handling does not read the body or the headers
PlainStatuses == {200, 201, 301, 401, 404, 409, 422, 500, 503}

\* rate: the lower-cased body contains 'rate limit' or 'abuse'
Responses ==
    { [status |-> st, rate |-> FALSE, retry_after |-> None, reset |-> None] :
        st \in PlainStatuses }
    \cup
    { [status |-> 403, rate |-> r, retry_after |-> ra, reset |-> rs] :
        r \in BOOLEAN, ra \in RetryAfterValues, rs \in ResetValues }

\* the rate-limit branch is entered
RateLimited(resp) == resp.status = 403 /\ resp.rate

\* faulty variant: client errors are retried too
ServerError_from_400(resp) == resp.status >= 400
\* the 5xx condition
ServerError(resp) == resp.status >= 500

\* computing the rate-limit delay raises ValueError
RateDelayRaises(resp) ==
    IF Present(resp.retry_after) THEN IntRaises(resp.retry_after)
    ELSE IF Present(resp.reset) THEN IntRaises(resp.reset)
    ELSE FALSE

\* faulty variant: a readable reset header is consulted before Retry-After
RateBaseDelay_reset_first(resp, att, now) ==
    IF Present(resp.reset) /\ ~IntRaises(resp.reset)
    THEN Max(0, IntValue(resp.reset) - now)
    ELSE IF Present(resp.retry_after) THEN IntValue(resp.retry_after)
    ELSE Pow2(att) * BackoffUnit

\* sleep_time before the jitter
RateBaseDelay(resp, att, now) ==
    IF Present(resp.retry_after) THEN IntValue(resp.retry_after)
    ELSE IF Present(resp.reset) THEN Max(0, IntValue(resp.reset) - now)
    ELSE Pow2(att) * BackoffUnit

\* faulty variant: the delay is not capped
RateSleepTime_uncapped(resp, att, now, jitter) ==
    RateBaseDelay(resp, att, now) + jitter

\* sleep_time = min(sleep_time + jitter, 300)
RateSleepTime(resp, att, now, jitter) ==
    Min(RateBaseDelay(resp, att, now) + jitter, SleepCap)

\* sleep_time of the 5xx branch
ServerSleepTime(att, jitter) == Pow2(att) + jitter

\* "attempt < max_retries - 1"
MoreAttempts(att, max) == att < max - 1

\* a call of make_request_with_retry begins
InitRetry ==
    /\ commits = <<>>
    /\ branch = 0
    /\ known = {}
    /\ paths = <<>>
    /\ mode = <<>>
    /\ PipelineIdle
    /\ ModeIdle
    /\ RefIdle
    /\ WriteIdle
    /\ TwoIdle
    /\ max_retries \in 1..MaxRetriesArg
    /\ attempt = 0
    /\ r_pc = "loop"
    /\ response = NoResponse
    /\ nreq = 0
    /\ sleep_time = -1
    /\ log = <<>>
    /\ returned = NoResponse

\* one pass of the for loop: the request, then the raise, the sleep and
\* continue, or the break and return
RequestAttempt(resp, now, jr, js) ==
    /\ r_pc = "loop"
    /\ attempt < max_retries
    /\ nreq' = nreq + 1
    /\ response' = resp
    /\ LET transient == RateLimited(resp) \/ ServerError(resp)
           seen == Append(log, IF transient THEN "transient" ELSE "final")
           rate_sleep == RateSleepTime(resp, attempt, now, jr)
       IN IF RateLimited(resp) /\ RateDelayRaises(resp)
          THEN /\ r_pc' = "raised" /\ log' = seen
               /\ UNCHANGED <<attempt, sleep_time, returned>>
          ELSE IF RateLimited(resp) /\ MoreAttempts(attempt, max_retries)
          THEN IF rate_sleep < 0
               THEN /\ r_pc' = "raised" /\ log' = seen
                    /\ UNCHANGED <<attempt, sleep_time, returned>>
               ELSE /\ sleep_time' = rate_sleep
                    /\ log' = Append(seen, "sleep")
                    /\ attempt' = attempt + 1
                    /\ UNCHANGED <<r_pc, returned>>
          ELSE IF ServerError(resp) /\ MoreAttempts(attempt, max_retries)
          THEN /\ sleep_time' = ServerSleepTime(attempt, js)
               /\ log' = Append(seen, "sleep")
               /\ attempt' = attempt + 1
               /\ UNCHANGED <<r_pc, returned>>
          ELSE /\ r_pc' = "returned" /\ returned' = resp /\ log' = seen
               /\ UNCHANGED <<attempt, sleep_time>>
    /\ UNCHANGED <<max_retries, store, request, pc, locals, status, error,
                   calls, ghost, mode_vars, ref_vars, write_vars, inv>>

NextRetry ==
    \E resp \in Responses, now \in NowValues, jr \in 0..JitterMax, js \in 0..1 :
        RequestAttempt(resp, now, jr, js)

SpecRetry == InitRetry /\ [][NextRetry]_vars

\* --------------------------------- user_mode_to_git_mode, git_mode_to_display
\* mode_map of git_mode_to_display
Display644 ==
    <<"6", "4", "4", " ", "(", "r", "e", "g", "u", "l", "a", "r", " ",
      "f", "i", "l", "e", ")">>
Display755 ==
    <<"7", "5", "5", " ", "(", "e", "x", "e", "c", "u", "t", "a", "b", "l", "e", ")">>
DisplaySymlink == <<"s", "y", "m", "l", "i", "n", "k">>
DisplayDirectory == <<"d", "i", "r", "e", "c", "t", "o", "r", "y">>
DisplaySubmodule == <<"s", "u", "b", "m", "o", "d", "u", "l", "e">>

\* faulty variant: a mode that is not in mode_map is not shown
git_mode_to_display_known_only(gm) ==
    IF gm = M644 THEN Display644
    ELSE IF gm = M755 THEN Display755
    ELSE IF gm = MSymlink THEN DisplaySymlink
    ELSE IF gm = MSubdir THEN DisplayDirectory
    ELSE IF gm = MSubmodule THEN DisplaySubmodule
    ELSE <<"u", "n", "k", "n", "o", "w", "n">>

git_mode_to_display(gm) ==
    IF gm = M644 THEN Display644
    ELSE IF gm = M755 THEN Display755
    ELSE IF gm = MSymlink THEN DisplaySymlink
    ELSE IF gm = MSubdir THEN DisplayDirectory
    ELSE IF gm = MSubmodule THEN DisplaySubmodule
    ELSE gm

\* the characters of the short --mode values followed: the octal digits, the
\* other digits, signs and letters
ModeChars == OctDigits \cup {"8", "9", "+", "-", "o", "a"}

\* every --mode value of at most three of these characters
ShortModes ==
    {<<>>} \cup {<<a>> : a \in ModeChars}
           \cup {<<a, b>> : a \in ModeChars, b \in ModeChars}
           \cup {<<a, b, c>> : a \in ModeChars, b \in ModeChars, c \in ModeChars}

\* type prefixes: those of the docstring and others
ModePrefixes ==
    { <<"1", "0", "0">>, <<"1", "2", "0">>, <<"0", "4", "0">>, <<"1", "6", "0">>,
      <<"1", "7", "0">>, <<"1", "9", "9">>, <<"2", "0", "0">>, <<"0", "0", "0">>,
      <<"7", "7", "7">> }
ModeSuffixes ==
    { <<"6", "4", "4">>, <<"7", "5", "5">>, <<"0", "0", "0">>, <<"7", "7", "7">>,
      <<"6", "4", "9">> }

\* longer --mode values: four, five and seven characters, and six
LongModes ==
    { <<"0", "7", "5", "5">>, <<"1", "7", "5", "5">>, <<"7", "7", "7", "7">>,
      <<"0", "0", "6", "4", "4">>, <<"4", "0", "0", "0", "0">>,
      <<"0", "1", "0", "0", "6", "4", "4">>, <<"1", "0", "0", "6", "4", "4", "0">> }
    \cup {p \o x : p \in ModePrefixes, x \in ModeSuffixes}

ModeInputs == ShortModes \cup LongModes

\* a --mode value is about to be translated and displayed
InitMode ==
    /\ commits = <<>>
    /\ branch = 0
    /\ known = {}
    /\ paths = <<>>
    /\ mode \in ModeInputs
    /\ PipelineIdle
    /\ RetryIdle
    /\ RefIdle
    /\ WriteIdle
    /\ TwoIdle
    /\ m_pc = "translate"
    /\ mode_display = <<>>

\* git_mode = user_mode_to_git_mode(mode)
TranslateMode ==
    /\ m_pc = "translate"
    /\ git_mode' = user_mode_to_git_mode(mode)
    /\ m_pc' = "display"
    /\ UNCHANGED <<store, request, pc, head_sha, tree_sha, tree_entries, changed,
                   skipped, not_found, tree_changes, new_tree_sha,
                   new_commit_sha, result, status, error, calls, ghost,
                   retry_vars, mode_display, ref_vars, write_vars, inv,
                   warned>>

\* mode_display = git_mode_to_display(git_mode), or mode after a ValueError
DisplayMode ==
    /\ m_pc = "display"
    /\ mode_display' = IF git_mode = ValueError THEN mode
                       ELSE git_mode_to_display(git_mode)
    /\ m_pc' = "shown"
    /\ UNCHANGED <<store, request, pc, locals, status, error, calls, ghost,
                   retry_vars, ref_vars, write_vars, inv>>

NextMode == TranslateMode \/ DisplayMode

SpecMode == InitMode /\ [][NextMode]_vars

\* ------------------------------------------------------------- get_ref_sha
\* the object of a ref response: {"type", "sha"}; NoRef when the ref is absent
NoRef == [type |-> "none", sha |-> ""]
CommitObj(c) == [type |-> "commit", sha |-> c]
TagObj(t) == [type |-> "tag", sha |-> t]

\* the commits of the store, and its one annotated tag object
CommitIds == {"c1", "c2"}
TagObjectIds == {"t1"}
\* the object of GET {tag_url}: the commit the annotated tag points to
TagTarget(t) == IF t = "t1" THEN "c2" ELSE ""

\* ref arguments: a branch name, a tag name, a commit id, a name of nothing
RefNames == {"main", "v1", "c1", "zz"}

MkRefs(main, v1) ==
    [n \in RefNames |-> IF n = "main" THEN main ELSE IF n = "v1" THEN v1 ELSE NoRef]

\* the branches of the store: main alone, a branch named like a tag, none
HeadsChoices ==
    { MkRefs(CommitObj("c1"), NoRef), MkRefs(CommitObj("c1"), CommitObj("c2")),
      MkRefs(NoRef, NoRef) }

\* the tags of the store: lightweight, annotated, a tag named like a branch,
\* none
TagsChoices ==
    { MkRefs(NoRef, CommitObj("c1")), MkRefs(NoRef, TagObj("t1")),
      MkRefs(TagObj("t1"), CommitObj("c2")), MkRefs(NoRef, NoRef) }

\* the two modules that define get_ref_sha
Impls == {"github_common", "branch_create"}

\* statuses of a lookup: found, not found, a failure of the server
LookupStatuses == {200, 404, 500}
\* the store answers 200 only for what it holds and 404 only for what it lacks
StoreAnswers(present, st) == (st = 200 => present) /\ (st = 404 => ~present)

\* "if response.status_code == 200"
lookup_ok(st) == st = 200

\* faulty variant: the tag lookup is left out
NextLookup_skips_tag(kind) ==
    IF kind = "branch" THEN "commit" ELSE "exit"

\* the statement reached when a lookup did not answer 200
NextLookup(kind) ==
    IF kind = "branch" THEN "tag"
    ELSE IF kind = "tag" THEN "commit"
    ELSE "exit"

Call(kind, st) == [kind |-> kind, status |-> st]

\* a call of get_ref_sha begins
InitRef ==
    /\ commits = <<>>
    /\ branch = 0
    /\ known = {}
    /\ paths = <<>>
    /\ mode = <<>>
    /\ PipelineIdle
    /\ RetryIdle
    /\ ModeIdle
    /\ WriteIdle
    /\ TwoIdle
    /\ impl \in Impls
    /\ ref \in RefNames
    /\ heads \in HeadsChoices
    /\ tags \in TagsChoices
    /\ ref_pc = "branch"
    /\ ref_calls = <<>>
    /\ sha = ""

\* "Try as a branch first"
LookupBranch(st) ==
    /\ ref_pc = "branch"
    /\ StoreAnswers(heads[ref] # NoRef, st)
    /\ ref_calls' = Append(ref_calls, Call("branch", st))
    /\ IF lookup_ok(st)
       THEN sha' = heads[ref].sha /\ ref_pc' = "returned"
       ELSE sha' = sha /\ ref_pc' = NextLookup("branch")
    /\ UNCHANGED <<store, request, pc, locals, status, error, calls, ghost,
                   retry_vars, mode_vars, write_vars, inv, impl, ref, heads,
                   tags>>

\* "Try as a tag", github_common.py: the sha of the ref's object is returned
LookupTag(st) ==
    /\ ref_pc = "tag"
    /\ impl = "github_common"
    /\ StoreAnswers(tags[ref] # NoRef, st)
    /\ ref_calls' = Append(ref_calls, Call("tag", st))
    /\ IF lookup_ok(st)
       THEN sha' = tags[ref].sha /\ ref_pc' = "returned"
       ELSE sha' = sha /\ ref_pc' = NextLookup("tag")
    /\ UNCHANGED <<store, request, pc, locals, status, error, calls, ghost,
                   retry_vars, mode_vars, write_vars, inv, impl, ref, heads,
                   tags>>

\* "Try as a tag", branch_create.py: an object of type tag is dereferenced
LookupTagDeref(st) ==
    /\ ref_pc = "tag"
    /\ impl = "branch_create"
    /\ StoreAnswers(tags[ref] # NoRef, st)
    /\ ref_calls' = Append(ref_calls, Call("tag", st))
    /\ IF lookup_ok(st)
       THEN IF tags[ref].type = "tag"
            THEN sha' = sha /\ ref_pc' = "deref"
            ELSE sha' = tags[ref].sha /\ ref_pc' = "returned"
       ELSE sha' = sha /\ ref_pc' = NextLookup("tag")
    /\ UNCHANGED <<store, request, pc, locals, status, error, calls, ghost,
                   retry_vars, mode_vars, write_vars, inv, impl, ref, heads,
                   tags>>

\* branch_create.py: the GET of the tag object; when it does not answer 200
\* the function falls through to "return obj.get('sha')"
DerefTag(st) ==
    /\ ref_pc = "deref"
    /\ StoreAnswers(TRUE, st)
    /\ ref_calls' = Append(ref_calls, Call("deref", st))
    /\ sha' = IF lookup_ok(st) THEN TagTarget(tags[ref].sha) ELSE tags[ref].sha
    /\ ref_pc' = "returned"
    /\ UNCHANGED <<store, request, pc, locals, status, error, calls, ghost,
                   retry_vars, mode_vars, write_vars, inv, impl, ref, heads,
                   tags>>

\* "Try as a commit SHA directly", then the exit
LookupCommit(st) ==
    /\ ref_pc = "commit"
    /\ StoreAnswers(ref \in CommitIds, st)
    /\ ref_calls' = Append(ref_calls, Call("commit", st))
    /\ IF lookup_ok(st)
       THEN sha' = ref /\ ref_pc' = "returned"
       ELSE sha' = sha /\ ref_pc' = NextLookup("commit")
    /\ UNCHANGED <<store, request, pc, locals, status, error, calls, ghost,
                   retry_vars, mode_vars, write_vars, inv, impl, ref, heads,
                   tags>>

NextRef ==
    \E st \in LookupStatuses :
        \/ LookupBranch(st)
        \/ LookupTag(st)
        \/ LookupTagDeref(st)
        \/ DerefTag(st)
        \/ LookupCommit(st)

SpecRef == InitRef /\ [][NextRef]_vars

\* ------------------------------------------------------------ file_write.py
\* the blob the contents endpoint makes of the new content
NewBlobSha == 21

\* the store's trees when file_write.py is run: the branch's, and the tree of
\* a commit that another writer has made on top of it
WriteTrees ==
    { MkTree(Subtree, Blob(M644, 11), Blob(M644, 12)),
      MkTree(Subtree, Blob(M755, 11), Blob(MSymlink, 13)),
      MkTree(NoEntry, NoEntry, Blob(M755, 12)) }
OtherWriterTree == MkTree(Subtree, Blob(M644, 11), Blob(M644, 16))

\* --path values: an existing file, one typed with a leading slash, a name
\* that is free in one tree and a directory in the others
WritePaths == { <<"y">>, <<"/", "d", "/", "x">>, <<"d">> }
\* --mode values; None when the option is not given
WriteModes == { None, <<"7", "5", "5">>, <<"6", "4", "4">>, <<"9">> }
\* --sha values: not given, the blobs of the files
ShaArgs == {0, 11, 12}

\* PUT /contents/{path}: the store's answer to {content, sha, branch}
ContentsPutStatus(cur, p, given) ==
    IF cur[p].type \in {"tree", "commit"} THEN 422
    ELSE IF cur[p] = NoEntry
         THEN IF given # 0 THEN 422
              ELSE IF p = Pdx /\ cur[Pd] \notin {NoEntry, Subtree} THEN 422
              ELSE 201
    ELSE IF given = 0 THEN 422
    ELSE IF given = cur[p].sha THEN 200
    ELSE 409

\* the tree of the commit the contents endpoint makes: a new file is a
\* regular file, a replaced file keeps its mode
ContentsPutTree(cur, p) ==
    [q \in TreePaths |->
        IF q = p
        THEN Blob(IF cur[p] = NoEntry THEN M644 ELSE cur[p].mode, NewBlobSha)
        ELSE IF q = Pd /\ p = Pdx THEN Subtree
        ELSE cur[q]]

\* faulty variant: the response of the content write is not checked
create_or_update_file_ok_unchecked(st) == TRUE
\* create_or_update_file returns (does not exit)
create_or_update_file_ok(st) == st \in {200, 201}

\* file_write.py is run with --path, --content, --branch and maybe --sha, --mode
InitWrite ==
    /\ RetryIdle
    /\ ModeIdle
    /\ RefIdle
    /\ TwoIdle
    /\ \E t \in WriteTrees :
         commits = << [tree |-> t, parents |-> <<>>],
                      [tree |-> OtherWriterTree, parents |-> <<1>>] >>
    /\ branch = 1
    /\ known = {1, 2}
    /\ \E path \in WritePaths : paths = <<path>>
    /\ mode \in WriteModes
    /\ sha_arg \in ShaArgs
    /\ content_commit = 0
    /\ w_pc = "put"
    /\ pc = "idle"
    /\ git_mode = <<>>
    /\ head_sha = 0
    /\ tree_sha = NoTree
    /\ tree_entries = <<>>
    /\ changed = <<>>
    /\ skipped = <<>>
    /\ not_found = <<>>
    /\ tree_changes = <<>>
    /\ new_tree_sha = NoTree
    /\ new_commit_sha = 0
    /\ result = 0
    /\ status = 0
    /\ warned = FALSE
    /\ error = ""
    /\ calls = <<>>
    /\ runs = 0
    /\ ext = 0
    /\ ext0 = 0
    /\ branch0 = 1
    /\ commits0 = 2
    /\ patch_branch = 0
    /\ prev = NoPrev

\* create_or_update_file: the PUT, served by the store (st = 200) or not
PutContents(st) ==
    LET p == LStripChar(paths[1], "/")
        cur == commits[branch].tree
        answer == IF st = 200 THEN ContentsPutStatus(cur, p, sha_arg) ELSE st
    IN /\ w_pc = "put"
       /\ Len(commits) < MaxCommits
       /\ calls' = Append(calls, "create_or_update_file")
       /\ status' = answer
       /\ IF answer \in {200, 201}
          THEN /\ commits' = Append(commits, CommitBody(ContentsPutTree(cur, p), branch))
               /\ branch' = Len(commits) + 1
               /\ known' = known \cup {Len(commits) + 1}
          ELSE UNCHANGED store
       /\ IF create_or_update_file_ok(answer)
          THEN /\ content_commit' = IF answer \in {200, 201} THEN Len(commits) + 1 ELSE 0
               /\ w_pc' = IF mode = None THEN "done" ELSE "set_mode"
               /\ error' = error
          ELSE /\ content_commit' = content_commit
               /\ w_pc' = "failed"
               /\ error' = "api"
       /\ UNCHANGED <<request, pc, locals, ghost, retry_vars, mode_vars, ref_vars,
                      sha_arg, inv>>

\* "if args.mode": set_file_mode up to its first remote call
SetFileModeStart ==
    /\ w_pc = "set_mode"
    /\ pc = "idle"
    /\ git_mode' = user_mode_to_git_mode(mode)
    /\ IF git_mode' = ValueError
       THEN pc' = "failed" /\ error' = "mode"
       ELSE pc' = "get_head" /\ error' = error
    /\ UNCHANGED <<store, request, head_sha, tree_sha, tree_entries, changed,
                   skipped, not_found, tree_changes, new_tree_sha,
                   new_commit_sha, result, warned, status, calls, ghost,
                   retry_vars, mode_vars, ref_vars, write_vars, inv>>

\* the first entry of the listing with the path, 0 when there is none
RECURSIVE FirstEntryAt(_, _, _)
FirstEntryAt(entries, p, i) ==
    IF i > Len(entries) THEN 0
    ELSE IF entries[i].path = p THEN i
    ELSE FirstEntryAt(entries, p, i + 1)

\* set_file_mode: get_tree_recursive, the search for the file, the exit when
\* it is missing, the return of None when the mode is right, the patch list
SetFileModeGetTree(st, n) ==
    /\ w_pc = "set_mode"
    /\ pc = "get_tree"
    /\ n \in 0..Len(Listing(tree_sha))
    /\ calls' = Append(calls, "get_tree_recursive")
    /\ status' = st
    /\ IF get_tree_recursive_returns(st, Truncated(tree_sha, n))
       THEN LET entries == SubSeq(Listing(tree_sha), 1, n)
                normalized_path == StripSlash(paths[1])
                at == FirstEntryAt(entries, normalized_path, 1)
            IN /\ tree_entries' = entries
               /\ warned' = Truncated(tree_sha, n)
               /\ IF at = 0
                  THEN pc' = "failed" /\ error' = "not_found"
                       /\ tree_changes' = tree_changes
                  ELSE IF entries[at].mode = git_mode
                  THEN pc' = "done" /\ error' = error
                       /\ tree_changes' = tree_changes
                  ELSE pc' = "create_tree" /\ error' = error
                       /\ tree_changes' =
                            << [path |-> normalized_path, mode |-> git_mode,
                                type |-> "blob", sha |-> entries[at].sha] >>
       ELSE /\ pc' = "failed" /\ error' = "api"
            /\ UNCHANGED <<tree_entries, tree_changes, warned>>
    /\ UNCHANGED <<store, request, git_mode, head_sha, tree_sha, changed, skipped,
                   not_found, new_tree_sha, new_commit_sha, result, ghost,
                   retry_vars, mode_vars, ref_vars, write_vars, inv>>

\* main of file_write.py: the content write, then set_file_mode, whose other
\* calls are the helpers change_file_modes calls
NextWrite ==
    \/ \E st \in GetStatuses : PutContents(st)
    \/ SetFileModeStart
    \/ \E st \in GetStatuses : GetBranchHead(st)
    \/ \E st \in GetStatuses : GetCommitTree(st)
    \/ \E st \in GetStatuses, n \in 0..Len(TreeOrder) : SetFileModeGetTree(st, n)
    \/ \E st \in PostStatuses : CreateTree(st)
    \/ \E st \in PostStatuses : CreateCommit(st)
    \/ \E st \in PatchStatuses : UpdateBranchRef(st)
    \/ \E c \in 1..MaxCommits : ExternalMove(c)

SpecWrite == InitWrite /\ [][NextWrite]_vars

\* ------------------------------- two invocations of file_chmod.py at once
\* the invocations
Invocations == {1, 2}
\* their --path lists and --mode values
TwoPathLists == { <<RawY>>, <<RawDx>>, <<RawY, RawDx>> }
TwoModes == { <<"7", "5", "5">>, <<"0", "6", "4", "4">> }

\* the state of everything but the store and the two invocations
single_vars == <<request, pc, locals, status, error, calls, ghost, retry_vars,
                 mode_vars, ref_vars, write_vars>>

\* an invocation that has not started
IdleInvocation(ps, m) ==
    [pc |-> "idle", paths |-> ps, mode |-> m, git_mode |-> <<>>, head_sha |-> 0,
     tree_sha |-> NoTree, tree_changes |-> <<>>, new_tree_sha |-> NoTree,
     new_commit_sha |-> 0, result |-> 0, status |-> 0, patch_branch |-> 0]

InitTwo ==
    /\ RetryIdle
    /\ ModeIdle
    /\ RefIdle
    /\ WriteIdle
    /\ PipelineIdle
    /\ paths = <<>>
    /\ mode = <<>>
    /\ commits = << [tree |-> MkTree(Subtree, Blob(M644, 11), Blob(M644, 12)),
                     parents |-> <<>>],
                    [tree |-> MkTree(Subtree, Blob(M644, 11), Blob(M755, 12)),
                     parents |-> <<1>>] >>
    /\ branch = 2
    /\ known = {1, 2}
    /\ \E ps1 \in TwoPathLists, ps2 \in TwoPathLists, m1 \in TwoModes, m2 \in TwoModes :
         inv = [i \in Invocations |->
                   IF i = 1 THEN IdleInvocation(ps1, m1) ELSE IdleInvocation(ps2, m2)]

\* invocation i is run: change_file_modes up to its first remote call
TwoStart(i) ==
    /\ inv[i].pc = "idle"
    /\ inv' = [inv EXCEPT ![i].git_mode = user_mode_to_git_mode(inv[i].mode),
                          ![i].pc = IF user_mode_to_git_mode(inv[i].mode) = ValueError
                                    THEN "failed" ELSE "get_head"]
    /\ UNCHANGED <<store, single_vars>>

\* Step 1 of invocation i: get_branch_head_sha
TwoGetBranchHead(i, st) ==
    /\ inv[i].pc = "get_head"
    /\ inv' = IF get_branch_head_sha_ok(st)
              THEN [inv EXCEPT ![i].status = st, ![i].head_sha = branch,
                               ![i].pc = "get_commit"]
              ELSE [inv EXCEPT ![i].status = st, ![i].pc = "failed"]
    /\ UNCHANGED <<store, single_vars>>

\* Step 2 of invocation i: get_commit_tree_sha
TwoGetCommitTree(i, st) ==
    /\ inv[i].pc = "get_commit"
    /\ inv' = IF get_commit_tree_sha_ok(st)
              THEN [inv EXCEPT ![i].status = st,
                               ![i].tree_sha = commits[inv[i].head_sha].tree,
                               ![i].pc = "get_tree"]
              ELSE [inv EXCEPT ![i].status = st, ![i].pc = "failed"]
    /\ UNCHANGED <<store, single_vars>>

\* Steps 3 to 5 of invocation i: get_tree_recursive (the whole listing), the
\* classification, the exits and the patch list
TwoGetTree(i, st) ==
    /\ inv[i].pc = "get_tree"
    /\ inv' = IF get_tree_recursive_returns(st, FALSE)
              THEN LET found_files == find_files_in_tree(Listing(inv[i].tree_sha),
                                                         inv[i].paths)
                       nf == NotFoundList(found_files, inv[i].paths)
                       ch == ChangedList(found_files, inv[i].git_mode, inv[i].paths)
                   IN IF nf # <<>>
                      THEN [inv EXCEPT ![i].status = st, ![i].pc = "failed"]
                      ELSE IF NothingToChange(ch)
                      THEN [inv EXCEPT ![i].status = st, ![i].pc = "done"]
                      ELSE [inv EXCEPT ![i].status = st, ![i].pc = "create_tree",
                                       ![i].tree_changes =
                                           TreeChanges(found_files, inv[i].git_mode, ch)]
              ELSE [inv EXCEPT ![i].status = st, ![i].pc = "failed"]
    /\ UNCHANGED <<store, single_vars>>

\* Step 6 of invocation i: create_tree_with_changes
TwoCreateTree(i, st) ==
    LET answer == IF st = 201 /\ ~PatchValid(inv[i].tree_changes) THEN 422 ELSE st
    IN /\ inv[i].pc = "create_tree"
       /\ inv' = IF create_tree_with_changes_ok(answer)
                 THEN [inv EXCEPT ![i].status = answer,
                                  ![i].new_tree_sha =
                                      ApplyPatch(inv[i].tree_sha, inv[i].tree_changes),
                                  ![i].pc = "create_commit"]
                 ELSE [inv EXCEPT ![i].status = answer, ![i].pc = "failed"]
       /\ UNCHANGED <<store, single_vars>>

\* Step 7 of invocation i: create_commit
TwoCreateCommit(i, st) ==
    /\ inv[i].pc = "create_commit"
    /\ Len(commits) < MaxCommits
    /\ IF create_commit_ok(st)
       THEN /\ commits' = Append(commits,
                                 CommitBody(inv[i].new_tree_sha, inv[i].head_sha))
            /\ inv' = [inv EXCEPT ![i].status = st,
                                  ![i].new_commit_sha = Len(commits) + 1,
                                  ![i].pc = "update_ref"]
       ELSE /\ commits' = commits
            /\ inv' = [inv EXCEPT ![i].status = st, ![i].pc = "failed"]
    /\ UNCHANGED <<branch, known, single_vars>>

\* Step 8 of invocation i: update_branch_ref, then the return of the result
TwoUpdateBranchRef(i, st) ==
    LET accepted == RefUpdateAccepted(commits, branch, inv[i].new_commit_sha,
                                      update_branch_ref_force)
        answer == IF st = 200 /\ ~accepted THEN 422 ELSE st
    IN /\ inv[i].pc = "update_ref"
       /\ branch' = IF answer = 200 THEN inv[i].new_commit_sha ELSE branch
       /\ known' = IF answer = 200 THEN known \cup {inv[i].new_commit_sha} ELSE known
       /\ inv' = IF update_branch_ref_ok(answer)
                 THEN [inv EXCEPT ![i].status = answer, ![i].patch_branch = branch,
                                  ![i].result = inv[i].new_commit_sha,
                                  ![i].pc = "done"]
                 ELSE [inv EXCEPT ![i].status = answer, ![i].patch_branch = branch,
                                  ![i].pc = "failed"]
       /\ UNCHANGED <<commits, single_vars>>

NextTwo ==
    \/ \E i \in Invocations : TwoStart(i)
    \/ \E i \in Invocations, st \in GetStatuses : TwoGetBranchHead(i, st)
    \/ \E i \in Invocations, st \in GetStatuses : TwoGetCommitTree(i, st)
    \/ \E i \in Invocations, st \in GetStatuses : TwoGetTree(i, st)
    \/ \E i \in Invocations, st \in PostStatuses : TwoCreateTree(i, st)
    \/ \E i \in Invocations, st \in PostStatuses : TwoCreateCommit(i, st)
    \/ \E i \in Invocations, st \in PatchStatuses : TwoUpdateBranchRef(i, st)

SpecTwo == InitTwo /\ [][NextTwo]_vars

\* ------------------------------------------ the two workflows, side by side
\* one invocation of either script: file_chmod.py with --mode 755 or
\* file_write.py
InitSafe ==
    \/ Init /\ mode = <<"7", "5", "5">>
    \/ InitWrite

NextSafe ==
    \/ w_pc = "idle" /\ Next
    \/ w_pc # "idle" /\ NextWrite

SpecSafe == InitSafe /\ [][NextSafe]_vars

\* ------------------------------------------------------------- properties
Count(seq, x) == Cardinality({i \in 1..Len(seq) : seq[i] = x})
Range(seq) == {seq[i] : i \in 1..Len(seq)}
WriteCalls == {"create_tree_with_changes", "create_commit", "update_branch_ref"}

\* the PATCH of the branch ref has been answered in this invocation
Patched == patch_branch # 0
\* the invocation returned a commit
Committed == pc = "done" /\ result # 0
\* get_tree_recursive returned its listing and the paths were classified
Classified == Len(calls) >= 3 /\ ~(Len(calls) = 3 /\ error = "api")
\* the paths of the listing the invocation read
ListedPaths == {tree_entries[i].path : i \in 1..Len(tree_entries)}
ListedEntry(p) == tree_entries[CHOOSE i \in 1..Len(tree_entries) : tree_entries[i].path = p]
RequestedPaths == {StripSlash(paths[i]) : i \in 1..Len(paths)}
MissingPaths == RequestedPaths \ ListedPaths

\* C1 as stated: whenever the branch no longer points at the head the
\* pipeline read when the branch-advance call arrives, the invocation fails.
C1_AnyMoveFailsAdvance ==
    Patched /\ patch_branch # head_sha => pc = "failed"

\* C1 as amended: when the branch-advance call arrives and the branch points
\* to a commit that is neither the head the pipeline read nor an ancestor of
\* it, the call is refused (not a fast-forward) and the invocation fails
\* without returning a commit.
C1_NonAncestorMoveFailsAdvance ==
    Patched /\ ~IsAncestor(commits, patch_branch, head_sha)
        => pc = "failed" /\ result = 0 /\ status \in {422} \cup ErrStatuses

C1_ConflictSeen ==
    /\ Patched
    /\ ~IsAncestor(commits, patch_branch, head_sha)
    /\ status = 422
    /\ pc = "failed"

\* C2: an invocation that ends in failure has not moved the branch (with no
\* other writer the branch is where it was at the start), and a step of the
\* pipeline moves the branch only when it is the update_branch_ref call that
\* ends the invocation successfully.
C2_FailureLeavesBranch ==
    /\ [](pc = "failed" /\ ext = ext0 => branch = branch0)
    /\ [][branch' # branch =>
            \/ ext' # ext
            \/ /\ pc = "update_ref" /\ pc' = "done"
               /\ calls' = Append(calls, "update_branch_ref")]_vars

C2_FailedAtLastStep ==
    /\ pc = "failed"
    /\ Len(calls) = 6
    /\ status = 422
    /\ new_commit_sha = Len(commits)
    /\ branch = patch_branch

\* C3: an invocation that returns a commit issued one tree creation, one
\* commit creation and one branch update, added exactly one commit to the
\* store, and its one patch list names every changed path, all of which have
\* the target mode in the new commit's tree.
C3_SingleCommitBatching ==
    Committed =>
        /\ Len(changed) >= 1
        /\ Count(calls, "create_tree_with_changes") = 1
        /\ Count(calls, "create_commit") = 1
        /\ Count(calls, "update_branch_ref") = 1
        /\ Len(commits) = commits0 + 1
        /\ result = Len(commits)
        /\ Range(changed) = {tree_changes[i].path : i \in 1..Len(tree_changes)}
        /\ \A p \in Range(changed) : commits[result].tree[p].mode = git_mode

C3_TwoPathsOneCommit ==
    Committed /\ Cardinality(Range(changed)) >= 2

\* the invocation repeats the request of an invocation that returned a
\* commit, starts with the branch at that commit, and no other writer moved
\* the branch since it started
RepeatedRun ==
    /\ prev.pc = "done" /\ prev.commit # 0
    /\ branch0 = prev.commit
    /\ ext = ext0

\* C4: the repeated invocation issues no write call and leaves the branch at
\* the first invocation's commit; when it returns, every path is in skipped,
\* none in changed, and commit_sha is None.
C4_Idempotence ==
    RepeatedRun =>
        /\ Range(calls) \cap WriteCalls = {}
        /\ pc \notin {"create_tree", "create_commit", "update_ref"}
        /\ branch = prev.commit
        /\ Len(commits) = commits0
        /\ pc = "done" =>
              /\ result = 0
              /\ changed = <<>>
              /\ skipped = normalized_paths(paths)

C4_SecondRunReturned ==
    RepeatedRun /\ pc = "done" /\ Len(skipped) >= 1

\* C5: when a requested path is absent from the listing, the invocation
\* fails with the not-found error, the error names exactly the missing
\* paths, and no write call was issued.
C5_MissingPathRejected ==
    Classified /\ MissingPaths # {} =>
        /\ pc = "failed"
        /\ error = "not_found"
        /\ Range(not_found) = MissingPaths
        /\ Range(calls) \cap WriteCalls = {}

C5_MissingBesideChangeable ==
    /\ Classified
    /\ MissingPaths # {}
    /\ \E p \in RequestedPaths \cap ListedPaths :
          ListedEntry(p).type = "blob" /\ ListedEntry(p).mode # git_mode

\* every requested path is listed and is no file or has the target mode
AllNoOps ==
    /\ Classified
    /\ MissingPaths = {}
    /\ \A p \in RequestedPaths :
          ListedEntry(p).type # "blob" \/ ListedEntry(p).mode = git_mode

\* C6: when every requested path is a no-op the invocation returns
\* commit_sha = None with an empty changed list, having issued the three
\* reads and no write call; no commit is added.
C6_NoopShortCircuit ==
    AllNoOps =>
        /\ pc = "done"
        /\ result = 0
        /\ changed = <<>>
        /\ calls = <<"get_branch_head_sha", "get_commit_tree_sha", "get_tree_recursive">>
        /\ Len(commits) = commits0

C6_NoopWithNonFile ==
    /\ AllNoOps
    /\ \E p \in RequestedPaths : ListedEntry(p).type # "blob"
    /\ \E p \in RequestedPaths : ListedEntry(p).mode = git_mode

\* C7: the commit a successful invocation returns has the head that was read
\* as its only parent; its tree equals the head's tree except that the
\* changed paths carry the target mode; every patch entry names a changed
\* path with the target mode, type blob and the blob the path had; and the
\* branch was advanced to the returned commit.
C7_ResultShape ==
    Committed =>
        /\ commits[result].parents = <<head_sha>>
        /\ tree_sha = commits[head_sha].tree
        /\ \A i \in 1..Len(tree_changes) :
              /\ tree_changes[i].path \in Range(changed)
              /\ tree_changes[i].mode = git_mode
              /\ tree_changes[i].type = "blob"
              /\ tree_changes[i].sha = commits[head_sha].tree[tree_changes[i].path].sha
        /\ \A p \in TreePaths :
              commits[result].tree[p] =
                 IF p \in Range(changed)
                 THEN [commits[head_sha].tree[p] EXCEPT !.mode = git_mode]
                 ELSE commits[head_sha].tree[p]
        /\ status = 200
        /\ ext = ext0 => branch = result

C7_ChangedBesideUntouched ==
    /\ Committed
    /\ \E p \in TreePaths \ Range(changed) : commits[head_sha].tree[p] # NoEntry
    /\ branch = result

\* the response is a 5xx or a 403 whose body names a rate limit or abuse
IsTransient(resp) == resp.status >= 500 \/ (resp.status = 403 /\ resp.rate)
\* requests among the first i entries of the log
RequestsUpTo(i) == Cardinality({j \in 1..i : log[j] # "sleep"})

\* C8 as stated: the call issues at most max_retries requests, and when it
\* is over it has issued at least one and has returned the response of the
\* last request.
C8_BoundedRetryReturnsLast ==
    /\ nreq <= max_retries
    /\ r_pc # "loop" => r_pc = "returned" /\ nreq >= 1 /\ returned = response

\* C9: a response that is neither a 5xx nor a 403 whose body names a rate
\* limit is returned by the pass that received it: the call is over, the
\* response is its result, and the only sleeps were those between the
\* earlier requests.
C9_NonTransientReturnedAtOnce ==
    nreq >= 1 /\ ~IsTransient(response) =>
        /\ r_pc = "returned"
        /\ returned = response
        /\ log[Len(log)] = "final"
        /\ Count(log, "sleep") = nreq - 1
        /\ Count(log, "final") = 1

C9_Plain403Returned ==
    /\ r_pc = "returned"
    /\ nreq = 1
    /\ max_retries > 1
    /\ response.status = 403
    /\ ~response.rate
    /\ Present(response.retry_after)

\* C10 as stated: a transient response is returned only by the last of
\* max_retries requests, and a transient response to an earlier request is
\* followed by a sleep (and so by another request).
C10_TransientOnlyOnExhaustion ==
    /\ r_pc = "returned" /\ IsTransient(returned) => nreq = max_retries
    /\ \A i \in 1..Len(log) :
          log[i] = "transient" /\ RequestsUpTo(i) < max_retries
              => i < Len(log) /\ log[i + 1] = "sleep"

\* the call has just slept on a rate-limited response (and will retry)
SleptOnRateLimit ==
    /\ Len(log) >= 1
    /\ log[Len(log)] = "sleep"
    /\ response.status = 403
    /\ response.rate

\* the base delay the selection rule gives for the response slept on, taken
\* at clock reading now; the sleep followed request number attempt - 1
SelectedBaseDelay(now) ==
    IF response.retry_after # None THEN IntValue(response.retry_after)
    ELSE IF response.reset # None
         THEN (IF IntValue(response.reset) > now
               THEN IntValue(response.reset) - now ELSE 0)
         ELSE 60 * Pow2(attempt - 1)

\* C11: the sleep before the retry of a rate-limited response is the jitter
\* (0 to 5 s) added to the Retry-After value when that header is there, else
\* to the time from now to X-RateLimit-Reset (0 when past) when that header
\* is there, else to 60 * 2^attempt seconds (attempt counted from 0); the sum
\* is cut at the ceiling.
C11_DelaySelection ==
    SleptOnRateLimit =>
        \E now \in NowValues, j \in 0..5 :
            sleep_time = Min(SelectedBaseDelay(now) + j, 300)

C11_RetryAfterBesideReset ==
    /\ SleptOnRateLimit
    /\ response.retry_after = <<"3", "0">>
    /\ response.reset = <<"1", "0", "1", "0">>
    /\ sleep_time >= 30

\* C12: every sleep on a rate-limited response lasts at most 300 seconds
\* (and is not negative), whatever the headers and the attempt number.
C12_DelayCeiling ==
    SleptOnRateLimit => sleep_time >= 0 /\ sleep_time <= 300

C12_CeilingReached ==
    /\ SleptOnRateLimit
    /\ response.retry_after = <<"4", "0", "0">>
    /\ sleep_time = 300

\* C13 as stated: whatever the responses, their headers and bodies, the call
\* never ends by raising an exception.
C13_NeverRaises == r_pc # "raised"

\* the headers of the response carry Retry-After or X-RateLimit-Reset
ThrottleHeaders(resp) == resp.retry_after # None \/ resp.reset # None

\* C14 as stated: a 403 whose headers alone indicate throttling (the body
\* names neither a rate limit nor abuse) is retried while attempts remain,
\* like one whose body says so: it is followed by a sleep, not returned.
C14_HeaderThrottleRetried ==
    /\ nreq >= 1
    /\ nreq < max_retries
    /\ response.status = 403
    /\ ~response.rate
    /\ ThrottleHeaders(response)
    => r_pc = "loop" /\ log[Len(log)] = "sleep"

\* a 3-digit octal string, 000..777
IsThreeOctal(m) == Len(m) = 3 /\ \A i \in 1..3 : m[i] \in OctDigits
AllDigits(m) == \A i \in 1..Len(m) : m[i] \in DecDigits
\* the type codes of files, symlinks, subtrees and submodules
RecognizedPrefixes ==
    { <<"1", "0", "0">>, <<"1", "2", "0">>, <<"0", "4", "0">>, <<"1", "6", "0">> }
\* a 6-digit string with a recognized type prefix
IsSixRecognized(m) ==
    Len(m) = 6 /\ AllDigits(m) /\ SubSeq(m, 1, 3) \in RecognizedPrefixes
Translated == m_pc \in {"display", "shown"}

\* C15: a 3-digit octal string m, leading zeros included, is translated to
\* "100" followed by m (so two different 3-digit inputs never give the same
\* result).
C15_ThreeDigitTranslation ==
    Translated /\ IsThreeOctal(mode) => git_mode = <<"1", "0", "0">> \o mode

C15_LeadingZerosKept ==
    /\ Translated
    /\ mode = <<"0", "0", "7">>
    /\ git_mode = <<"1", "0", "0", "0", "0", "7">>

\* C16 as stated: a 6-digit string whose type prefix is 100, 120, 040 or 160
\* is returned unchanged.
C16_SixDigitPassThrough ==
    Translated /\ IsSixRecognized(mode) => git_mode = mode

\* C17 as stated: an input that is neither a 3-digit octal string nor a
\* 6-digit string with a recognized prefix is rejected with ValueError, and
\* every value returned is six octal digits.
C17_ModeValidation ==
    Translated =>
        /\ ~IsThreeOctal(mode) /\ ~IsSixRecognized(mode) => git_mode = ValueError
        /\ git_mode # ValueError =>
              Len(git_mode) = 6 /\ \A i \in 1..6 : git_mode[i] \in OctDigits

\* the digits a display string starts with
RECURSIVE LeadingDigits(_)
LeadingDigits(d) ==
    IF d # <<>> /\ Head(d) \in DecDigits
    THEN <<Head(d)>> \o LeadingDigits(Tail(d))
    ELSE <<>>

\* the permission bits a display string names: the number it starts with,
\* without the type code when the number is a full mode
PermissionBitsNamed(d) ==
    LET n == LeadingDigits(d)
    IN IF Len(n) = 6 THEN SubSeq(n, 4, 6) ELSE n

\* the codes the display knows
DisplayedCodes ==
    { <<"1", "0", "0", "6", "4", "4">>, <<"1", "0", "0", "7", "5", "5">>,
      <<"1", "2", "0", "0", "0", "0">>, <<"0", "4", "0", "0", "0", "0">>,
      <<"1", "6", "0", "0", "0", "0">> }

\* C18: for a 3-digit octal string m the display of its translation names
\* the permission bits m, and the display of a code that is not known is the
\* code itself.
C18_ModeRoundTrip ==
    m_pc = "shown" =>
        /\ IsThreeOctal(mode) => PermissionBitsNamed(mode_display) = mode
        /\ git_mode # ValueError /\ git_mode \notin DisplayedCodes
              => mode_display = git_mode

C18_ExecutableShown ==
    /\ m_pc = "shown"
    /\ mode = <<"7", "5", "5">>
    /\ mode_display = Display755

\* the three lookups issued (the GET of a tag object belongs to the tag lookup)
Lookups == SelectSeq(ref_calls, LAMBDA c : c.kind # "deref")
LookupOrder == <<"branch", "tag", "commit">>
LastLookup == Lookups[Len(Lookups)]

\* C19: the lookups are issued in the order branch, tag, commit; each is
\* issued only after the ones before it failed; the call returns with the
\* first lookup that succeeds, with what that lookup found, and issues none
\* after it; it exits with not-found only when all three have failed.
C19_ResolutionOrder ==
    /\ Len(Lookups) <= 3
    /\ \A i \in 1..Len(Lookups) : Lookups[i].kind = LookupOrder[i]
    /\ \A i \in 1..(Len(Lookups) - 1) : Lookups[i].status # 200
    /\ ref_pc \in {"returned", "deref"} =>
          /\ LastLookup.status = 200
          /\ ref_calls[1].status = 200 => Len(ref_calls) = 1
    /\ ref_pc = "returned" =>
          /\ LastLookup.kind = "branch" => sha = heads[ref].sha
          /\ LastLookup.kind = "tag" => sha \in {tags[ref].sha, TagTarget(tags[ref].sha)}
          /\ LastLookup.kind = "commit" => sha = ref
    /\ ref_pc = "exit" =>
          Len(Lookups) = 3 /\ \A i \in 1..3 : Lookups[i].status # 200
    /\ ref_pc \in {"branch", "tag", "commit"} =>
          /\ \A i \in 1..Len(Lookups) : Lookups[i].status # 200
          /\ ref_pc = LookupOrder[Len(Lookups) + 1]

C19_BranchShadowsTag ==
    /\ ref_pc = "returned"
    /\ heads[ref] # NoRef
    /\ tags[ref] # NoRef
    /\ tags[ref].sha # heads[ref].sha
    /\ ref_calls = <<Call("branch", 200)>>
    /\ sha = heads[ref].sha

\* C20 as stated: a ref resolved through the tag lookup yields a commit
\* identifier; for an annotated tag it is the commit the tag object points
\* to, never the tag object's own identifier.
C20_TagResolvesToCommit ==
    ref_pc = "returned" /\ LastLookup.kind = "tag" =>
        /\ sha \in CommitIds
        /\ tags[ref].type = "tag" => sha = TagTarget(tags[ref].sha)

\* the remote calls of change_file_modes, in their order
CallOrder ==
    << "get_branch_head_sha", "get_commit_tree_sha", "get_tree_recursive",
       "create_tree_with_changes", "create_commit", "update_branch_ref" >>
\* the call an invocation is about to issue, by position
NextCallAt ==
    << "get_head", "get_commit", "get_tree", "create_tree", "create_commit",
       "update_ref" >>
IsSuccess(st) == st >= 200 /\ st <= 299
MidPipeline == pc \in Range(NextCallAt)

\* C24: the calls issued are an initial part of the fixed order; a call is
\* about to be issued only when all calls before it were issued and the last
\* one returned success; a failure response ends the invocation at once; and
\* each step works on the identifier the step before produced (the tree of
\* the commit read, the patched tree, the commit made of it on the head
\* read), so the branch update is sent only for a commit that was created.
C24_PipelineOrder ==
    /\ Len(calls) <= 6
    /\ calls = SubSeq(CallOrder, 1, Len(calls))
    /\ MidPipeline =>
          /\ pc = NextCallAt[Len(calls) + 1]
          /\ Len(calls) >= 1 => IsSuccess(status)
    /\ Len(calls) >= 1 /\ ~IsSuccess(status) => pc = "failed" /\ error = "api"
    /\ pc \in {"get_tree", "create_tree", "create_commit", "update_ref"} =>
          tree_sha = commits[head_sha].tree
    /\ pc \in {"create_commit", "update_ref"} =>
          new_tree_sha = ApplyPatch(tree_sha, tree_changes)
    /\ Len(calls) = 6 \/ pc = "update_ref" =>
          /\ new_commit_sha > commits0
          /\ commits[new_commit_sha] = [tree |-> new_tree_sha, parents |-> <<head_sha>>]
    /\ Committed => result = new_commit_sha

C24_CommitCreationFailed ==
    /\ pc = "failed"
    /\ Len(calls) = 5
    /\ status = 500
    /\ Len(commits) = commits0

\* requested paths whose entry in the listing read is no blob
NonFilePaths ==
    {p \in RequestedPaths \cap ListedPaths : ListedEntry(p).type # "blob"}
PatchedPaths == {tree_changes[i].path : i \in 1..Len(tree_changes)}

\* C25: a requested path whose entry is a subtree or a submodule is in
\* skipped, not in changed, and has no patch entry; it alone does not make
\* the invocation fail; and the requested files whose mode differs are still
\* changed.
C25_NonFileSkipped ==
    Classified =>
        /\ \A p \in NonFilePaths :
              /\ p \in Range(skipped)
              /\ p \notin Range(changed)
              /\ p \notin PatchedPaths
        /\ MissingPaths = {} => ~(pc = "failed" /\ Len(calls) = 3)
        /\ \A p \in (RequestedPaths \cap ListedPaths) \ NonFilePaths :
              ListedEntry(p).mode # git_mode =>
                  /\ p \in Range(changed)
                  /\ MissingPaths = {} => p \in PatchedPaths

C25_NonFileBesideChanged ==
    /\ Committed
    /\ NonFilePaths # {}
    /\ Len(changed) >= 1

\* the listing read is shorter than the tree's: the store cut it
ListingCut == Len(tree_entries) < Len(Listing(tree_sha))
\* the tree listing was asked for and answered with success
ListingAnswered == (Len(calls) = 3 /\ status = 200) \/ Len(calls) > 3

C28_PatchPathsUnique ==
    /\ \A i, j \in 1..Len(tree_changes) :
          i # j => tree_changes[i].path # tree_changes[j].path
    /\ \A i, j \in 1..Len(changed) : i # j => changed[i] # changed[j]

\* a file mode: 100 and three permission digits
IsFileMode(m) == Len(m) = 6 /\ SubSeq(m, 1, 3) = <<"1", "0", "0">>

\* C29 as stated: with a 3-digit target mode, every patch entry names a
\* path whose current mode is a file mode; a symlink is never rewritten.
C29_EntryKindPreserved ==
    Len(mode) = 3 =>
        \A i \in 1..Len(tree_changes) :
            IsFileMode(ListedEntry(tree_changes[i].path).mode)

\* --------------------------------------------------- file_write.py with --mode
\* the entry set_file_mode found for its path in the tree it read again
FileEntryAt == FirstEntryAt(tree_entries, StripSlash(paths[1]), 1)
\* the invocation of file_write.py has ended in failure
WriteFailed == w_pc = "failed" \/ (w_pc = "set_mode" /\ pc = "failed")
\* set_file_mode has started
ModeStepStarted == w_pc = "set_mode" /\ pc # "idle"

\* C22: with --mode the content is committed first by the contents endpoint
\* and the mode afterwards by the tree pipeline: the mode step starts only
\* after the content write succeeded, it makes its commit only when the mode
\* of the file in the tree it read again differs from the target, so one
\* invocation adds at most two commits, and only the content commit when the
\* mode is already right.
C22_WriteThenMode ==
    /\ w_pc # "put" => calls # <<>> /\ calls[1] = "create_or_update_file"
    /\ mode = None => pc = "idle"
    /\ w_pc = "failed" => pc = "idle" /\ content_commit = 0
    /\ w_pc \in {"set_mode", "done"} =>
          /\ content_commit = commits0 + 1
          /\ commits[content_commit].tree[LStripChar(paths[1], "/")].sha = NewBlobSha
    /\ Len(commits) <= commits0 + 2
    /\ tree_changes # <<>> =>
          /\ ModeStepStarted
          /\ FileEntryAt # 0
          /\ tree_entries[FileEntryAt].mode # git_mode
    /\ new_commit_sha # 0 =>
          /\ tree_changes # <<>>
          /\ new_commit_sha = content_commit + 1
          /\ commits[new_commit_sha].parents = <<head_sha>>
    /\ (w_pc = "set_mode" /\ pc = "done" /\ FileEntryAt # 0
            /\ tree_entries[FileEntryAt].mode = git_mode) =>
          /\ result = 0
          /\ new_commit_sha = 0
          /\ Len(commits) = commits0 + 1

\* C22 witness: an invocation made the content commit and then the mode commit
C22_ModeCommitAfterContent ==
    /\ w_pc = "set_mode"
    /\ pc = "done"
    /\ content_commit = commits0 + 1
    /\ result = commits0 + 2
    /\ branch = result
    /\ commits[result].tree[StripSlash(paths[1])].mode = git_mode

\* C23: an invocation with --mode that ends in failure, with no other writer
\* at work, leaves the branch where it was when the invocation started.
C23_FailureLeavesBranch ==
    (mode # None /\ WriteFailed /\ ext = 0) => branch = branch0

\* C30: set_file_mode sends a patch entry only for a path whose entry is a
\* blob; for a subtree or a submodule it makes no tree and no commit and does
\* not move the branch.
C30_SetFileModeBlobsOnly ==
    (ModeStepStarted /\ FileEntryAt # 0
        /\ tree_entries[FileEntryAt].type # "blob") =>
       /\ tree_changes = <<>>
       /\ new_tree_sha = NoTree
       /\ new_commit_sha = 0

\* ------------------------------------------------------------ safe by default
\* C21: every branch update of change_file_modes and of set_file_mode is
\* sent without force: the step that calls update_branch_ref moves the branch
\* only forward, to a descendant of the commit it pointed at, and a call that
\* finds the branch on a commit that is no ancestor of the new commit is
\* refused and fails the invocation.
C21_SafeByDefault ==
    /\ [](Patched /\ ~IsAncestor(commits, patch_branch, new_commit_sha)
            => pc = "failed" /\ result = 0 /\ status \in {422} \cup ErrStatuses)
    /\ [][calls' = Append(calls, "update_branch_ref") =>
            /\ ~update_branch_ref_force
            /\ branch' # branch =>
                  /\ branch' = new_commit_sha
                  /\ IsAncestor(commits, branch, branch')]_vars

\* C21 witness: set_file_mode's update found the branch on another writer's
\* commit and was refused; the other writer's commit is still the head
C21_SetFileModeRefused ==
    /\ w_pc = "set_mode"
    /\ pc = "failed"
    /\ status = 422
    /\ Patched
    /\ ~IsAncestor(commits, patch_branch, new_commit_sha)
    /\ branch = patch_branch

\* ------------------------------------------------------- two invocations
BothFinished == \A i \in Invocations : inv[i].pc \in {"done", "failed"}

\* C27: of two invocations on the same branch, interleaved in any way, each
\* one that reports success has its commit reachable from the branch head
\* when both have finished, and one whose commit was built on a head that the
\* other has replaced by then reports failure and leaves the other's commit
\* as the head.
C27_NoLostUpdate ==
    /\ BothFinished =>
          \A i \in Invocations :
             (inv[i].pc = "done" /\ inv[i].result # 0)
                => IsAncestor(commits, inv[i].result, branch)
    /\ \A i \in Invocations :
          (inv[i].patch_branch # 0 /\ inv[i].patch_branch # inv[i].head_sha) =>
             /\ inv[i].pc = "failed"
             /\ inv[i].result = 0
             /\ inv[i].status \in {422} \cup ErrStatuses
             /\ IsAncestor(commits, inv[i].patch_branch, branch)

\* C27 witness: both built a commit on the same head; the first to update the
\* branch succeeded, the second was refused
C27_SecondWriterRefused ==
    /\ BothFinished
    /\ inv[1].head_sha = inv[2].head_sha
    /\ inv[1].pc = "done"
    /\ inv[1].result # 0
    /\ branch = inv[1].result
    /\ inv[2].pc = "failed"
    /\ inv[2].status = 422
    /\ inv[2].new_commit_sha # 0
    /\ inv[2].patch_branch = inv[1].result

====
